---------------------------- MODULE Spec2Model ----------------------------
(***************************************************************************)
(* A model of matGroups.py: the range compressor (ranges), its rendering   *)
(* in bdf set format (hmRanges), the bdf writer (bdfExport), the scan of   *)
(* an output database (fromOdb) and the command-line loop.                 *)
(*                                                                         *)
(* Text is modelled as sequences of character codes, so that formatting    *)
(* ('%5d', '%d THRU %d', str of an integer) is computed, not assumed.      *)
(* Python indices are kept 0-based; At(s, ix) reads s[ix].                 *)
(***************************************************************************)
EXTENDS Integers, Sequences, FiniteSets

VARIABLES
    intList,      \* ranges: the argument
    sortedInts,   \* ranges: sorted(intList)
    lower,        \* ranges: lower index
    upper,        \* ranges: upper index
    boundary,     \* ranges: index of too high
    mid,          \* ranges: middle index (NoIndex while unassigned)
    yielded,      \* the pairs ranges has yielded so far
    hmOut,        \* the tokens hmRanges has yielded so far
    rpc,          \* position in the ranges / hmRanges generators
    setDict,      \* bdfExport: the argument, set name -> list of labels
    setType,      \* bdfExport: the argument, 1 node sets, 2 element sets
    items,        \* bdfExport: sorted(setDict.items())
    matId,        \* bdfExport: the number enumerate gives the current item
    hmList,       \* bdfExport: list(hmRanges(elems))
    i,            \* bdfExport: index of the chunk being printed
    bdf,          \* the text written to the bdf file object
    stderr,       \* the text written to sys.stderr
    epc,          \* position in bdfExport
    disk,         \* the output databases by file name, as openOdb finds them
    odbName,      \* fromOdb: the argument
    instanceName, \* fromOdb: the argument ('' for every instance)
    odb,          \* fromOdb: the open database
    instIdx,      \* fromOdb: how many instances the for loop has taken
    saIdx,        \* fromOdb: how many section assignments the for loop has taken
    materialSets, \* fromOdb: material name => list of element labels
    files,        \* the files written so far, name -> text
    opc,          \* position in fromOdb
    argv,         \* sys.argv[1:]
    argIdx,       \* how many arguments the command-line loop has taken
    stdout,       \* what was printed to sys.stdout, one entry per call
    cpc           \* position in the command-line loop

genVars == <<intList, sortedInts, lower, upper, boundary, mid, yielded, hmOut, rpc>>
exportVars == <<setDict, setType, items, matId, hmList, i, bdf, stderr, epc>>
\* The frames below the generators on the call stack.
odbVars == <<disk, odbName, instanceName, odb, instIdx, saIdx, materialSets, files, opc>>
cliVars == <<argv, argIdx, stdout, cpc>>
callerVars == <<exportVars, odbVars, cliVars>>
vars == <<genVars, callerVars>>

---------------------------------------------------------------------------
(* Bounds of the model.                                                    *)

\* Longest list handed to list(hmRanges(...)) directly.
MaxLen == 4
\* The labels of those lists are LoVal..HiVal: they cross from one decimal
\* digit to two.
LoVal == 8
HiVal == 12

\* Value of a local variable that has not been assigned yet.
NoIndex == -1

---------------------------------------------------------------------------
(* Text.                                                                   *)

\* 'CEND' etc. are written as code points: Chr(c) is one character.
SP == 32
COMMA == 44
NL == 10
QUOTE == 34
EQUALS == 61
DOLLAR == 36
MINUS == 45
ZERO == 48

RECURSIVE Digits(_)
\* str(n) / '%d' % n for n >= 0: the decimal digits, most significant first.
Digits(n) ==
    IF n < 10 THEN <<ZERO + n>>
    ELSE Append(Digits(n \div 10), ZERO + (n % 10))

\* '%d' % n
FormatD(n) ==
    IF n < 0 THEN <<MINUS>> \o Digits(-n) ELSE Digits(n)

RECURSIVE Spaces(_)
Spaces(k) ==
    IF k <= 0 THEN <<>> ELSE <<SP>> \o Spaces(k - 1)

\* '%<w>d' % n: right-justified in a field of w characters, never cut.
FormatWD(w, n) ==
    Spaces(w - Len(FormatD(n))) \o FormatD(n)

\* ' THRU '
ThruText == <<SP, 84, 72, 82, 85, SP>>

\* '%d THRU %d' % (lo, hi)
FormatThru(lo, hi) ==
    FormatD(lo) \o ThruText \o FormatD(hi)

---------------------------------------------------------------------------
(* ranges                                                                  *)

\* s[i] with Python's 0-based index.
At(s, ix) == s[ix + 1]

RECURSIVE InsertSorted(_, _)
InsertSorted(s, x) ==
    IF s = <<>> THEN <<x>>
    ELSE IF x < Head(s) THEN <<x>> \o s
    ELSE <<Head(s)>> \o InsertSorted(Tail(s), x)

RECURSIVE sorted(_)
\* sorted(intList): ascending, duplicates kept.
sorted(s) ==
    IF s = <<>> THEN <<>>
    ELSE InsertSorted(sorted(Tail(s)), Head(s))

\* The middle index rounded up instead of down.
MidpointCeil(u, b) == (u + b + 1) \div 2

\* (upper + boundary)//2
Midpoint(u, b) == (u + b) \div 2

\* A gap tolerated: the comparison is off by one.
TooFarLoose(s, u, m) == At(s, m) - At(s, u) > m - u + 1

\* sortedInts[mid] - sortedInts[upper] > mid - upper
TooFar(s, u, m) == At(s, m) - At(s, u) > m - u

rangesVars == <<intList, sortedInts, lower, upper, boundary, mid, yielded>>

\* sortedInts = sorted(intList); lower = 0
RangesEnter ==
    /\ rpc = "call"
    /\ sortedInts' = sorted(intList)
    /\ lower' = 0
    /\ rpc' = "while"
    /\ UNCHANGED <<intList, upper, boundary, mid, yielded, hmOut>>
    /\ UNCHANGED callerVars

\* while lower < len(sortedInts): upper = lower; boundary = len(sortedInts)
RangesNextRun ==
    /\ rpc = "while"
    /\ lower < Len(sortedInts)
    /\ upper' = lower
    /\ boundary' = Len(sortedInts)
    /\ rpc' = "search"
    /\ UNCHANGED <<intList, sortedInts, lower, mid, yielded, hmOut>>
    /\ UNCHANGED callerVars

\* while lower < len(sortedInts) fails: the generator is exhausted
RangesExhausted ==
    /\ rpc = "while"
    /\ ~(lower < Len(sortedInts))
    /\ rpc' = "exhausted"
    /\ UNCHANGED <<rangesVars, hmOut>>
    /\ UNCHANGED callerVars

\* while boundary > upper + 1: mid = (upper + boundary)//2
SearchProbe ==
    /\ rpc = "search"
    /\ boundary > upper + 1
    /\ mid' = Midpoint(upper, boundary)
    /\ rpc' = "test"
    /\ UNCHANGED <<intList, sortedInts, lower, upper, boundary, yielded, hmOut>>
    /\ UNCHANGED callerVars

\* while sortedInts[mid] - sortedInts[upper] > mid - upper:
\*     boundary = mid; mid = (upper + boundary)//2
SearchShrink ==
    /\ rpc = "test"
    /\ TooFar(sortedInts, upper, mid)
    /\ boundary' = mid
    /\ mid' = Midpoint(upper, mid)
    /\ UNCHANGED <<intList, sortedInts, lower, upper, yielded, hmOut, rpc>>
    /\ UNCHANGED callerVars

\* the inner while ends: upper = mid
SearchAccept ==
    /\ rpc = "test"
    /\ ~TooFar(sortedInts, upper, mid)
    /\ upper' = mid
    /\ rpc' = "search"
    /\ UNCHANGED <<intList, sortedInts, lower, boundary, mid, yielded, hmOut>>
    /\ UNCHANGED callerVars

\* while boundary > upper + 1 fails: yield sortedInts[lower], sortedInts[upper]
RangesYield ==
    /\ rpc = "search"
    /\ ~(boundary > upper + 1)
    /\ yielded' = Append(yielded, <<At(sortedInts, lower), At(sortedInts, upper)>>)
    /\ rpc' = "yielded"
    /\ UNCHANGED <<intList, sortedInts, lower, upper, boundary, mid, hmOut>>
    /\ UNCHANGED callerVars

\* the consumer asks for the next pair: lower = upper + 1
RangesResume ==
    /\ rpc = "resume"
    /\ lower' = upper + 1
    /\ rpc' = "while"
    /\ UNCHANGED <<intList, sortedInts, upper, boundary, mid, yielded, hmOut>>
    /\ UNCHANGED callerVars

---------------------------------------------------------------------------
(* hmRanges                                                                *)

\* A token hmRanges yields is an integer or a string.
IntToken(n) == [int |-> n]
StrToken(t) == [str |-> t]
IsIntToken(tok) == DOMAIN tok = {"int"}

\* The pair ranges yielded last: the loop variables lower, upper of hmRanges.
LastPair == yielded[Len(yielded)]

\* lower == upper
hmIsSingle(lo, hi) == lo = hi

\* The test for adjacent numbers is off by one.
hmIsAdjacentWide(lo, hi) == lo + 2 = hi

\* lower + 1 == upper
hmIsAdjacent(lo, hi) == lo + 1 = hi

\* if lower == upper: yield lower
HmSingle ==
    /\ rpc = "yielded"
    /\ hmIsSingle(LastPair[1], LastPair[2])
    /\ hmOut' = Append(hmOut, IntToken(LastPair[1]))
    /\ rpc' = "resume"
    /\ UNCHANGED rangesVars
    /\ UNCHANGED callerVars

\* elif lower + 1 == upper: yield lower; yield upper
HmAdjacent ==
    /\ rpc = "yielded"
    /\ ~hmIsSingle(LastPair[1], LastPair[2])
    /\ hmIsAdjacent(LastPair[1], LastPair[2])
    /\ hmOut' = hmOut \o <<IntToken(LastPair[1]), IntToken(LastPair[2])>>
    /\ rpc' = "resume"
    /\ UNCHANGED rangesVars
    /\ UNCHANGED callerVars

\* else: yield '%d THRU %d'%(lower, upper)
HmThru ==
    /\ rpc = "yielded"
    /\ ~hmIsSingle(LastPair[1], LastPair[2])
    /\ ~hmIsAdjacent(LastPair[1], LastPair[2])
    /\ hmOut' = Append(hmOut, StrToken(FormatThru(LastPair[1], LastPair[2])))
    /\ rpc' = "resume"
    /\ UNCHANGED rangesVars
    /\ UNCHANGED callerVars

---------------------------------------------------------------------------
(* bdfExport                                                               *)

\* 'CEND', 'SET', '$HMSET ', 'BEGIN BULK', 'ENDDATA'
CendText == <<67, 69, 78, 68>>
SetText == <<83, 69, 84>>
HmsetText == <<DOLLAR, 72, 77, 83, 69, 84, SP>>
BeginBulkText == <<66, 69, 71, 73, 78, SP, 66, 85, 76, 75>>
EndDataText == <<69, 78, 68, 68, 65, 84, 65>>

\* chunkSize = 8 # entities per line
chunkSize == 8

\* The default of the parameter setType.
DefaultSetType == 2

\* str(x) as print applies it to a token.
TokenText(tok) == IF IsIntToken(tok) THEN FormatD(tok.int) ELSE tok.str

RECURSIVE Join(_, _)
\* sep.join(texts)
Join(texts, sep) ==
    IF texts = <<>> THEN <<>>
    ELSE IF Len(texts) = 1 THEN texts[1]
    ELSE texts[1] \o sep \o Join(Tail(texts), sep)

\* print(*args, sep=sep, end=end): the text one call writes.
PrintText(args, sep, end) == Join(args, sep) \o end

\* toks[a:b] for 0 <= a.
Slice(toks, a, b) ==
    SubSeq(toks, a + 1, IF b < Len(toks) THEN b ELSE Len(toks))

TokenTexts(toks) == [k \in DOMAIN toks |-> TokenText(toks[k])]

\* Shorter strings first: the length is compared before the characters.
RECURSIVE StrLessShortFirst(_, _)
StrLessShortFirst(a, b) ==
    IF Len(a) # Len(b) THEN Len(a) < Len(b)
    ELSE IF a = <<>> THEN FALSE
    ELSE IF Head(a) # Head(b) THEN Head(a) < Head(b)
    ELSE StrLessShortFirst(Tail(a), Tail(b))

RECURSIVE StrLess(_, _)
\* a < b for two Python strings: by code point, a proper prefix first.
StrLess(a, b) ==
    IF b = <<>> THEN FALSE
    ELSE IF a = <<>> THEN TRUE
    ELSE IF Head(a) # Head(b) THEN Head(a) < Head(b)
    ELSE StrLess(Tail(a), Tail(b))

RECURSIVE sortedItems(_)
\* sorted(setDict.items()): the (name, elems) pairs in ascending order; the
\* keys of a dict are distinct, so the names alone decide the order.
sortedItems(d) ==
    IF DOMAIN d = {} THEN <<>>
    ELSE LET least == CHOOSE n \in DOMAIN d :
                          \A o \in DOMAIN d \ {n} : StrLess(n, o)
         IN  <<<<least, d[least]>>>>
                 \o sortedItems([n \in DOMAIN d \ {least} |-> d[n]])

\* The loop variables matName, elems of the current item.
matName == items[matId][1]
elems == items[matId][2]

\* The chunk loop goes on while any token is left.
MoreChunksToEnd(at, n) == at + chunkSize < n

\* range(0, len(hmList) - chunkSize, chunkSize) has a value after i; i starts
\* at -chunkSize, so the value after i is i + chunkSize from the first on.
MoreChunks(at, n) == at + chunkSize < n - chunkSize

exportLocals == <<setDict, setType, items, matId, hmList, i>>

\* print('CEND', file=bdf)
ExportHeader ==
    /\ epc = "call"
    /\ bdf' = bdf \o PrintText(<<CendText>>, <<SP>>, <<NL>>)
    /\ epc' = "items"
    /\ UNCHANGED <<exportLocals, stderr, genVars, odbVars, cliVars>>

\* enumerate(sorted(setDict.items()), 1) is built
ExportSortItems ==
    /\ epc = "items"
    /\ items' = sortedItems(setDict)
    /\ matId' = 0
    /\ epc' = "for"
    /\ UNCHANGED <<setDict, setType, hmList, i, bdf, stderr, genVars, odbVars, cliVars>>

\* for matId, (matName, elems) in ...: the next item
ExportNextSet ==
    /\ epc = "for"
    /\ matId < Len(items)
    /\ matId' = matId + 1
    /\ epc' = "notice"
    /\ UNCHANGED <<setDict, setType, items, hmList, i, bdf, stderr, genVars, odbVars, cliVars>>

\* print(matName, len(elems), file=sys.stderr)
ExportNotice ==
    /\ epc = "notice"
    /\ stderr' = stderr \o PrintText(<<matName, FormatD(Len(elems))>>, <<SP>>, <<NL>>)
    /\ epc' = "label"
    /\ UNCHANGED <<exportLocals, bdf, genVars, odbVars, cliVars>>

\* print(matName, len(elems), file=sys.stderr) raises (the stream is closed,
\* a pipe is broken, a disk is full): nothing in bdfExport catches it
ExportNoticeRaises ==
    /\ epc = "notice"
    /\ epc' = "raised"
    /\ UNCHANGED <<exportLocals, bdf, stderr, genVars, odbVars, cliVars>>

\* print('SET%5d = '%matId, end='', file=bdf)
ExportSetLabel ==
    /\ epc = "label"
    /\ bdf' = bdf \o PrintText(<<SetText \o FormatWD(5, matId) \o <<SP, EQUALS, SP>>>>,
                               <<SP>>, <<>>)
    /\ epc' = "hmlist"
    /\ UNCHANGED <<exportLocals, stderr, genVars, odbVars, cliVars>>

\* hmList = list(hmRanges(elems)): the generators start
ExportCallHmRanges ==
    /\ epc = "hmlist"
    /\ intList' = elems
    /\ sortedInts' = <<>>
    /\ lower' = NoIndex
    /\ upper' = NoIndex
    /\ boundary' = NoIndex
    /\ mid' = NoIndex
    /\ yielded' = <<>>
    /\ hmOut' = <<>>
    /\ rpc' = "call"
    /\ epc' = "collect"
    /\ UNCHANGED <<exportLocals, bdf, stderr, odbVars, cliVars>>

\* hmList = list(hmRanges(elems)): the generators are exhausted;
\* i = -chunkSize
ExportCollect ==
    /\ epc = "collect"
    /\ rpc = "exhausted"
    /\ hmList' = hmOut
    /\ i' = -chunkSize
    /\ rpc' = "idle"
    /\ epc' = "chunks"
    /\ UNCHANGED <<setDict, setType, items, matId, bdf, stderr, rangesVars, hmOut,
                   odbVars, cliVars>>

\* for i in range(0, len(hmList) - chunkSize, chunkSize):
\*     print(*(hmList[i:i + chunkSize]), sep=',', end=',\n', file=bdf)
ExportChunkLine ==
    /\ epc = "chunks"
    /\ MoreChunks(i, Len(hmList))
    /\ i' = i + chunkSize
    /\ bdf' = bdf \o PrintText(TokenTexts(Slice(hmList, i', i' + chunkSize)),
                               <<COMMA>>, <<COMMA, NL>>)
    /\ UNCHANGED <<setDict, setType, items, matId, hmList, stderr, epc, genVars, odbVars, cliVars>>

\* the range is used up: i += chunkSize; print(*(hmList[i:]), sep=',', file=bdf)
ExportLastLine ==
    /\ epc = "chunks"
    /\ ~MoreChunks(i, Len(hmList))
    /\ i' = i + chunkSize
    /\ bdf' = bdf \o PrintText(TokenTexts(Slice(hmList, i', Len(hmList))),
                               <<COMMA>>, <<NL>>)
    /\ epc' = "hmset"
    /\ UNCHANGED <<setDict, setType, items, matId, hmList, stderr, genVars, odbVars, cliVars>>

\* print('$HMSET %8d %8d "%s"'%(matId, setType, matName), file=bdf)
ExportHmset ==
    /\ epc = "hmset"
    /\ bdf' = bdf \o PrintText(<<HmsetText \o FormatWD(8, matId) \o <<SP>>
                                   \o FormatWD(8, setType) \o <<SP, QUOTE>>
                                   \o matName \o <<QUOTE>>>>,
                               <<SP>>, <<NL>>)
    /\ epc' = "for"
    /\ UNCHANGED <<exportLocals, stderr, genVars, odbVars, cliVars>>

\* the for loop ends: print('BEGIN BULK', file=bdf); print('ENDDATA', file=bdf)
ExportTrailer ==
    /\ epc = "for"
    /\ ~(matId < Len(items))
    /\ bdf' = bdf \o PrintText(<<BeginBulkText>>, <<SP>>, <<NL>>)
                  \o PrintText(<<EndDataText>>, <<SP>>, <<NL>>)
    /\ epc' = "done"
    /\ UNCHANGED <<exportLocals, stderr, genVars, odbVars, cliVars>>

NextGenerators ==
    \/ RangesEnter
    \/ RangesNextRun
    \/ RangesExhausted
    \/ SearchProbe
    \/ SearchShrink
    \/ SearchAccept
    \/ RangesYield
    \/ RangesResume
    \/ HmSingle
    \/ HmAdjacent
    \/ HmThru

NextExport ==
    \/ ExportHeader
    \/ ExportSortItems
    \/ ExportNextSet
    \/ ExportNotice
    \/ ExportNoticeRaises
    \/ ExportSetLabel
    \/ ExportCallHmRanges
    \/ ExportCollect
    \/ ExportChunkLine
    \/ ExportLastLine
    \/ ExportHmset
    \/ ExportTrailer

---------------------------------------------------------------------------
(* fromOdb                                                                 *)

\* 'Skipping ', ' != ', 'Reporting material groups from', '-No materials-',
\* '_material_', '.bdf'
SkippingText == <<83, 107, 105, 112, 112, 105, 110, 103, 32>>
NotEqualText == <<32, 33, 61, 32>>
ReportingText == <<82, 101, 112, 111, 114, 116, 105, 110, 103, 32, 109, 97, 116, 101, 114, 105, 97, 108, 32, 103, 114, 111, 117, 112, 115, 32, 102, 114, 111, 109>>
NoMaterialsText == <<45, 78, 111, 32, 109, 97, 116, 101, 114, 105, 97, 108, 115, 45>>
MaterialInfix == <<95, 109, 97, 116, 101, 114, 105, 97, 108, 95>>
BdfSuffix == <<46, 98, 100, 102>>
APOSTROPHE == 39
DOT == 46

\* '%r' % name for a plain string.
FormatR(name) == <<APOSTROPHE>> \o name \o <<APOSTROPHE>>

\* os.path.splitext(name)[0] for a name without directories: the name up to
\* its last dot, the whole name when it has no dot past its first character.
SplitextRoot(name) ==
    LET dots == {k \in 2..Len(name) : name[k] = DOT}
    IN  IF dots = {} THEN name
        ELSE SubSeq(name, 1, (CHOOSE k \in dots : \A o \in dots : o <= k) - 1)

\* '%s_material_%s.bdf'%(os.path.splitext(odbName)[0], instance.name)
BdfFileName(odbFile, instName) ==
    SplitextRoot(odbFile) \o MaterialInfix \o instName \o BdfSuffix

\* The loop variables instance, sectionAssignment and section.
instance == odb.instances[instIdx]
sectionAssignment == instance.sectionAssignments[saIdx + 1]
section == odb.sections[sectionAssignment.sectionName]

\* hasattr(section, 'material') and section.material
HasMaterial(sec) ==
    /\ "material" \in DOMAIN sec
    /\ sec.material # <<>>

\* The entry of the name is replaced instead of extended.
Overwritten(ms, name, labels) ==
    [n \in DOMAIN ms \cup {name} |-> IF n = name THEN labels ELSE ms[n]]

\* ms.setdefault(name, []).extend(labels)
Extended(ms, name, labels) ==
    [n \in DOMAIN ms \cup {name} |->
        IF n = name
        THEN (IF name \in DOMAIN ms THEN ms[name] ELSE <<>>) \o labels
        ELSE ms[n]]

\* A dict counts as true only when one of its lists has a member.
AnyMember(ms) == \E n \in DOMAIN ms : ms[n] # <<>>

\* if materialSets: a dict is true when it has a key.
Truthy(ms) == DOMAIN ms # {}

\* instanceName and instance.name != instanceName
Filtered(inst) ==
    /\ instanceName # <<>>
    /\ inst.name # instanceName

odbArgs == <<disk, odbName, instanceName>>

\* with closing(openOdb(odbName, readOnly=True)) as odb:
\*     for instance in odb.rootAssembly.instances.values():
OdbOpen ==
    /\ opc = "call"
    /\ odb' = disk[odbName]
    /\ instIdx' = 0
    /\ opc' = "instances"
    /\ UNCHANGED <<odbArgs, saIdx, materialSets, files, genVars, exportVars, cliVars>>

\* for instance in ...: the next instance
OdbNextInstance ==
    /\ opc = "instances"
    /\ instIdx < Len(odb.instances)
    /\ instIdx' = instIdx + 1
    /\ opc' = "filter"
    /\ UNCHANGED <<odbArgs, odb, saIdx, materialSets, files, genVars, exportVars, cliVars>>

\* if instanceName and instance.name != instanceName:
\*     print('Skipping %r != %r'%(instance.name, instanceName), file=sys.stderr)
\*     continue
OdbSkipInstance ==
    /\ opc = "filter"
    /\ Filtered(instance)
    /\ stderr' = stderr \o PrintText(<<SkippingText \o FormatR(instance.name)
                                         \o NotEqualText \o FormatR(instanceName)>>,
                                     <<SP>>, <<NL>>)
    /\ opc' = "instances"
    /\ UNCHANGED <<odbArgs, odb, instIdx, saIdx, materialSets, files, genVars,
                   exportLocals, bdf, epc, cliVars>>

\* print('Reporting material groups from', instance.name, file=sys.stderr)
\* materialSets = {}
OdbReport ==
    /\ opc = "filter"
    /\ ~Filtered(instance)
    /\ stderr' = stderr \o PrintText(<<ReportingText, instance.name>>, <<SP>>, <<NL>>)
    /\ materialSets' = [n \in {} |-> <<>>]
    /\ saIdx' = 0
    /\ opc' = "scan"
    /\ UNCHANGED <<odbArgs, odb, instIdx, files, genVars, exportLocals, bdf, epc, cliVars>>

\* for sectionAssignment in instance.sectionAssignments:
\*     if not hasattr(section, 'material') or not section.material: continue
OdbSkipSection ==
    /\ opc = "scan"
    /\ saIdx < Len(instance.sectionAssignments)
    /\ ~HasMaterial(section)
    /\ saIdx' = saIdx + 1
    /\ UNCHANGED <<odbArgs, odb, instIdx, materialSets, files, opc, genVars, exportVars, cliVars>>

\*     materialSets.setdefault(section.material, []).extend(
\*             e.label for e in sectionAssignment.region.elements)
OdbCollect ==
    /\ opc = "scan"
    /\ saIdx < Len(instance.sectionAssignments)
    /\ HasMaterial(section)
    /\ materialSets' = Extended(materialSets, section.material,
                                sectionAssignment.elements)
    /\ saIdx' = saIdx + 1
    /\ UNCHANGED <<odbArgs, odb, instIdx, files, opc, genVars, exportVars, cliVars>>

\* if materialSets: with open(fname, 'w') as bdf: bdfExport(bdf, materialSets)
\* The file is created, or cut to nothing, as it is opened.
OdbOpenBdf ==
    /\ opc = "scan"
    /\ ~(saIdx < Len(instance.sectionAssignments))
    /\ Truthy(materialSets)
    /\ LET fname == BdfFileName(odbName, instance.name)
       IN  files' = [f \in DOMAIN files \cup {fname} |->
                        IF f = fname THEN <<>> ELSE files[f]]
    /\ bdf' = <<>>
    /\ setDict' = materialSets
    /\ setType' = DefaultSetType
    /\ items' = <<>>
    /\ matId' = 0
    /\ hmList' = <<>>
    /\ i' = 0
    /\ epc' = "call"
    /\ opc' = "export"
    /\ UNCHANGED <<odbArgs, odb, instIdx, saIdx, materialSets, stderr, genVars, cliVars>>

\* else: print('-No materials-', file=sys.stderr)
OdbNoMaterials ==
    /\ opc = "scan"
    /\ ~(saIdx < Len(instance.sectionAssignments))
    /\ ~Truthy(materialSets)
    /\ stderr' = stderr \o PrintText(<<NoMaterialsText>>, <<SP>>, <<NL>>)
    /\ opc' = "instances"
    /\ UNCHANGED <<odbArgs, odb, instIdx, saIdx, materialSets, files, genVars,
                   exportLocals, bdf, epc, cliVars>>

\* bdfExport returns and the with statement closes the file
OdbCloseBdf ==
    /\ opc = "export"
    /\ epc = "done"
    /\ files' = [files EXCEPT ![BdfFileName(odbName, instance.name)] = bdf]
    /\ epc' = "idle"
    /\ opc' = "instances"
    /\ UNCHANGED <<odbArgs, odb, instIdx, saIdx, materialSets, genVars,
                   exportLocals, bdf, stderr, cliVars>>

\* bdfExport raises: the with statements close the file and the database,
\* and the exception leaves fromOdb
OdbExportRaised ==
    /\ opc = "export"
    /\ epc = "raised"
    /\ files' = [files EXCEPT ![BdfFileName(odbName, instance.name)] = bdf]
    /\ epc' = "idle"
    /\ opc' = "raised"
    /\ UNCHANGED <<odbArgs, odb, instIdx, saIdx, materialSets, genVars,
                   exportLocals, bdf, stderr, cliVars>>

\* the for loop over the instances ends and closing() closes the database
OdbClose ==
    /\ opc = "instances"
    /\ ~(instIdx < Len(odb.instances))
    /\ opc' = "done"
    /\ UNCHANGED <<odbArgs, odb, instIdx, saIdx, materialSets, files, genVars,
                   exportVars, cliVars>>

\* What fromOdb does when called from the command line: instanceName is ''.
NextOdbUnfiltered ==
    \/ OdbOpen
    \/ OdbNextInstance
    \/ OdbReport
    \/ OdbSkipSection
    \/ OdbCollect
    \/ OdbOpenBdf
    \/ OdbNoMaterials
    \/ OdbCloseBdf
    \/ OdbExportRaised
    \/ OdbClose

---------------------------------------------------------------------------
(* The command-line loop                                                   *)

\* '--help', '--test'
HelpFlag == <<45, 45, 104, 101, 108, 112>>
TestFlag == <<45, 45, 116, 101, 115, 116>>

\* What the doctest of bdfExport prints to sys.stderr: 'SET_A 10', 'SET_B 10'.
DoctestNotices == <<83, 69, 84, 95, 65, 32, 49, 48, 10, 83, 69, 84, 95, 66, 32, 49, 48, 10>>

\* The argument odbName of the loop.
arg == argv[argIdx]

\* for odbName in sys.argv[1:]: the next argument
CliNextArg ==
    /\ cpc = "for"
    /\ argIdx < Len(argv)
    /\ argIdx' = argIdx + 1
    /\ cpc' = "dispatch"
    /\ UNCHANGED <<argv, stdout, genVars, exportVars, odbVars>>

\* if '--help' == odbName: print(__doc__)
CliHelp ==
    /\ cpc = "dispatch"
    /\ HelpFlag = arg
    /\ stdout' = Append(stdout, "__doc__")
    /\ cpc' = "for"
    /\ UNCHANGED <<argv, argIdx, genVars, exportVars, odbVars>>

\* elif '--test' == odbName: import doctest; doctest.testmod(verbose=True)
CliTest ==
    /\ cpc = "dispatch"
    /\ HelpFlag # arg
    /\ TestFlag = arg
    /\ stdout' = Append(stdout, "doctest report")
    /\ stderr' = stderr \o DoctestNotices
    /\ cpc' = "for"
    /\ UNCHANGED <<argv, argIdx, genVars, exportLocals, bdf, epc, odbVars>>

\* else: print(odbName, file=sys.stderr); fromOdb(odbName)
CliProcess ==
    /\ cpc = "dispatch"
    /\ HelpFlag # arg
    /\ TestFlag # arg
    /\ stderr' = stderr \o PrintText(<<arg>>, <<SP>>, <<NL>>)
    /\ odbName' = arg
    /\ instanceName' = <<>>
    /\ opc' = "call"
    /\ cpc' = "fromOdb"
    /\ UNCHANGED <<argv, argIdx, stdout, disk, odb, instIdx, saIdx, materialSets,
                   files, genVars, exportLocals, bdf, epc>>

\* fromOdb returns
CliReturn ==
    /\ cpc = "fromOdb"
    /\ opc = "done"
    /\ opc' = "idle"
    /\ cpc' = "for"
    /\ UNCHANGED <<argv, argIdx, stdout, disk, odbName, instanceName, odb, instIdx,
                   saIdx, materialSets, files, genVars, exportVars>>

\* fromOdb raises: the interpreter prints the traceback and exits
CliAbort ==
    /\ cpc = "fromOdb"
    /\ opc = "raised"
    /\ cpc' = "raised"
    /\ UNCHANGED <<argv, argIdx, stdout, genVars, exportVars, odbVars>>

\* the loop falls off its end
CliEnd ==
    /\ cpc = "for"
    /\ ~(argIdx < Len(argv))
    /\ cpc' = "done"
    /\ UNCHANGED <<argv, argIdx, stdout, genVars, exportVars, odbVars>>

NextCli ==
    \/ CliNextArg
    \/ CliHelp
    \/ CliTest
    \/ CliProcess
    \/ CliReturn
    \/ CliAbort
    \/ CliEnd

---------------------------------------------------------------------------
(* The frames before a call.                                               *)

GeneratorsIdle ==
    /\ intList = <<>>
    /\ sortedInts = <<>>
    /\ lower = NoIndex
    /\ upper = NoIndex
    /\ boundary = NoIndex
    /\ mid = NoIndex
    /\ yielded = <<>>
    /\ hmOut = <<>>
    /\ rpc = "idle"

NoDict == [n \in {} |-> <<>>]

ExportLocalsFresh ==
    /\ items = <<>>
    /\ matId = 0
    /\ hmList = <<>>
    /\ i = 0

ExportIdle ==
    /\ setDict = NoDict
    /\ setType = DefaultSetType
    /\ ExportLocalsFresh
    /\ bdf = <<>>
    /\ stderr = <<>>
    /\ epc = "idle"

NoDisk == [n \in {} |-> <<>>]
NoOdb == [instances |-> <<>>, sections |-> [n \in {} |-> <<>>]]

OdbLocalsFresh ==
    /\ odb = NoOdb
    /\ instIdx = 0
    /\ saIdx = 0
    /\ materialSets = NoDict

OdbIdle ==
    /\ disk = NoDisk
    /\ odbName = <<>>
    /\ instanceName = <<>>
    /\ OdbLocalsFresh
    /\ files = NoDict
    /\ opc = "idle"

CliIdle ==
    /\ argv = <<>>
    /\ argIdx = 0
    /\ stdout = <<>>
    /\ cpc = "idle"

---------------------------------------------------------------------------
(* list(hmRanges(intList)) called on its own, as the doctests do.          *)

RECURSIVE SeqsUpTo(_, _)
\* All sequences over S of length at most n.
SeqsUpTo(S, n) ==
    IF n = 0 THEN {<<>>}
    ELSE LET shorter == SeqsUpTo(S, n - 1)
         IN  shorter \cup {Append(s, x) : s \in {t \in shorter : Len(t) = n - 1}, x \in S}

\* The list of the two doctests: list(ranges([10,11,12,1,2,3,4,17,18,20]))
DoctestList == <<10, 11, 12, 1, 2, 3, 4, 17, 18, 20>>

\* Every short list over LoVal..HiVal, and the doctests' list.
RangesInputs == SeqsUpTo(LoVal..HiVal, MaxLen) \cup {DoctestList}

\* The generator frame as a call of list(hmRanges(l)) finds it.
RangesCalled(l) ==
    /\ intList = l
    /\ sortedInts = <<>>
    /\ lower = NoIndex
    /\ upper = NoIndex
    /\ boundary = NoIndex
    /\ mid = NoIndex
    /\ yielded = <<>>
    /\ hmOut = <<>>
    /\ rpc = "call"

InitRanges ==
    /\ \E l \in RangesInputs : RangesCalled(l)
    /\ ExportIdle
    /\ OdbIdle
    /\ CliIdle

SpecRanges == InitRanges /\ [][NextGenerators]_vars

\* The interpreter runs the generators to their end: no step waits on
\* anything outside the program.
SpecRangesFair == SpecRanges /\ WF_vars(NextGenerators)

---------------------------------------------------------------------------
(* bdfExport called on its own, as its doctest does.                       *)

\* Most labels in all the sets of one call.
MaxTotal == 19
\* Most sets in one call.
MaxSets == 2

\* The k-th label of the pattern 1,2,3, 5, 7,8, 10, 12, 14, ...: a run of
\* three, a single label, an adjacent pair, then single labels.
PatternLabel(k) ==
    IF k <= 3 THEN k
    ELSE IF k = 4 THEN 5
    ELSE IF k = 5 THEN 7
    ELSE IF k = 6 THEN 8
    ELSE 10 + 2 * (k - 7)

\* The first n labels of the pattern, highest first.
PatternList(n) == [k \in 1..n |-> PatternLabel(n + 1 - k)]

\* 'A', 'AB', 'B'
ExportNames == {<<65>>, <<65, 66>>, <<66>>}

RECURSIVE TotalLen(_)
TotalLen(d) ==
    IF DOMAIN d = {} THEN 0
    ELSE LET n == CHOOSE m \in DOMAIN d : TRUE
         IN  Len(d[n]) + TotalLen([m \in DOMAIN d \ {n} |-> d[m]])

ExportInputs ==
    UNION {{d \in [S -> {PatternList(n) : n \in 0..MaxTotal}] : TotalLen(d) <= MaxTotal} :
              S \in {T \in SUBSET ExportNames : Cardinality(T) <= MaxSets}}

ExportCalled(d, t) ==
    /\ setDict = d
    /\ setType = t
    /\ ExportLocalsFresh
    /\ bdf = <<>>
    /\ stderr = <<>>
    /\ epc = "call"

InitExport ==
    /\ \E d \in ExportInputs : ExportCalled(d, DefaultSetType)
    /\ GeneratorsIdle
    /\ OdbIdle
    /\ CliIdle

SpecExport == InitExport /\ [][NextExport \/ NextGenerators]_vars

---------------------------------------------------------------------------
(* fromOdb called on its own, as onJobCompletion does.                     *)

\* Most section assignments in one database.
MaxAssignments == 3
\* Labels of the largest region: enough for a record of two lines.
BigRegion == 11

\* 'STEEL', 'ALU'
Steel == <<83, 84, 69, 69, 76>>
Alu == <<65, 76, 85>>

\* odb.sections: two sections of one material, a section of a second
\* material, a section with no material attribute and one whose material
\* is empty.
Sections ==
    [n \in {"S1", "S2", "S3", "S4", "S5"} |->
        CASE n = "S1" -> [material |-> Steel]
          [] n = "S2" -> [material |-> Steel]
          [] n = "S3" -> [material |-> Alu]
          [] n = "S4" -> [category |-> <<>>]
          [] n = "S5" -> [material |-> <<>>]]

\* The element labels of the region each section is assigned to; the region
\* of S2 shares label 3 with the region of S1, the region of S3 is empty.
RegionLabels(n) ==
    CASE n = "S1" -> PatternList(BigRegion)
      [] n = "S2" -> <<4, 3>>
      [] n = "S3" -> <<>>
      [] n = "S4" -> <<30>>
      [] n = "S5" -> <<31>>

Assignment(n) == [sectionName |-> n, elements |-> RegionLabels(n)]

\* 'P', 'Q'
InstanceP == <<80>>
InstanceQ == <<81>>

\* A database of two instances: P has the first j of the assignments, Q has
\* the others.
MakeOdb(names, j) ==
    [instances |->
        << [name |-> InstanceP,
            sectionAssignments |-> [k \in 1..j |-> Assignment(names[k])]],
           [name |-> InstanceQ,
            sectionAssignments |-> [k \in 1..(Len(names) - j) |-> Assignment(names[j + k])]] >>,
     sections |-> Sections]

OdbContents ==
    UNION {{MakeOdb(names, j) : j \in 0..Len(names)} :
              names \in SeqsUpTo(DOMAIN Sections, MaxAssignments)}

\* 'J.odb', 'K.odb'
JobJ == <<74, 46, 111, 100, 98>>
JobK == <<75, 46, 111, 100, 98>>

OdbCalled(name, inst) ==
    /\ odbName = name
    /\ instanceName = inst
    /\ OdbLocalsFresh
    /\ files = NoDict
    /\ opc = "call"

InitOdb ==
    /\ \E content \in OdbContents : disk = [n \in {JobJ} |-> content]
    /\ \E inst \in {<<>>, InstanceP, InstanceQ} : OdbCalled(JobJ, inst)
    /\ ExportIdle
    /\ GeneratorsIdle
    /\ CliIdle

NextOdb ==
    \/ NextOdbUnfiltered
    \/ OdbSkipInstance
    \/ NextExport
    \/ NextGenerators

SpecOdb == InitOdb /\ [][NextOdb]_vars

---------------------------------------------------------------------------
(* The module run from the command line.                                   *)

\* Most arguments on the command line.
MaxArgs == 3

\* J.odb: instance P has a steel section and a section with no material,
\* instance Q the other steel section.  K.odb: instance P has the material
\* with the empty region, instance Q nothing.
CliDisk ==
    [n \in {JobJ, JobK} |->
        IF n = JobJ THEN MakeOdb(<<"S1", "S4", "S2">>, 2)
        ELSE MakeOdb(<<"S3">>, 1)]

InitCli ==
    /\ argv \in SeqsUpTo({HelpFlag, TestFlag, JobJ, JobK}, MaxArgs)
    /\ argIdx = 0
    /\ stdout = <<>>
    /\ cpc = "for"
    /\ disk = CliDisk
    /\ odbName = <<>>
    /\ instanceName = <<>>
    /\ OdbLocalsFresh
    /\ files = NoDict
    /\ opc = "idle"
    /\ ExportIdle
    /\ GeneratorsIdle

NextProgram ==
    \/ NextCli
    \/ NextOdbUnfiltered
    \/ NextExport
    \/ NextGenerators

SpecCli == InitCli /\ [][NextProgram]_vars

---------------------------------------------------------------------------
(* What the output of ranges and hmRanges is checked against.              *)

Values(s) == {s[x] : x \in DOMAIN s}

IsDistinct(s) == \A x, y \in DOMAIN s : x # y => s[x] # s[y]

\* The maximal runs of consecutive integers of S, as (first, last) pairs.
MaximalRuns(S) ==
    {p \in S \X S :
        /\ p[1] <= p[2]
        /\ \A v \in p[1]..p[2] : v \in S
        /\ (p[1] - 1) \notin S
        /\ (p[2] + 1) \notin S}

RECURSIVE AscendingPairs(_)
\* The pairs of P as a sequence in ascending order of first component.
AscendingPairs(P) ==
    IF P = {} THEN <<>>
    ELSE LET first == CHOOSE p \in P : \A q \in P : p[1] <= q[1]
         IN  <<first>> \o AscendingPairs(P \ {first})

\* The integers inside the closed intervals of a sequence of pairs.
Covered(pairs) == UNION {pairs[x][1]..pairs[x][2] : x \in DOMAIN pairs}

RangesFinished == rpc = "exhausted"

\* C1: for a non-empty list of distinct integers, ranges yields exactly the
\* maximal contiguous runs in ascending order: the intervals cover the input
\* and nothing else, consecutive pairs neither overlap nor touch, and there
\* are as many pairs as maximal runs.
C1_MaximalRuns ==
    (RangesFinished /\ intList # <<>> /\ IsDistinct(intList)) =>
        /\ Covered(yielded) = Values(intList)
        /\ \A x \in DOMAIN yielded : yielded[x][1] <= yielded[x][2]
        /\ \A x \in 1..(Len(yielded) - 1) : yielded[x][2] + 1 < yielded[x + 1][1]
        /\ Len(yielded) = Cardinality(MaximalRuns(Values(intList)))

\* An unsorted list of distinct integers with a run of three and a second run.
C1_Witness ==
    /\ RangesFinished
    /\ IsDistinct(intList)
    /\ intList # sortedInts
    /\ Len(yielded) >= 2
    /\ \E x \in DOMAIN yielded : yielded[x][2] >= yielded[x][1] + 2

\* C2: for a list with repeated values, ranges yields what it yields for the
\* distinct values (the maximal runs), and every integer inside a yielded
\* interval is a member of the input.
C2_DuplicatesIgnored ==
    (RangesFinished /\ ~IsDistinct(intList)) =>
        /\ yielded = AscendingPairs(MaximalRuns(Values(intList)))
        /\ Covered(yielded) \subseteq Values(intList)

RECURSIVE DecimalValue(_)
\* The number a string of decimal digits reads as (-1 when it is not one).
DecimalValue(t) ==
    IF t = <<>> THEN -1
    ELSE IF \E x \in DOMAIN t : t[x] \notin 48..57 THEN -1
    ELSE IF Len(t) = 1 THEN t[1] - 48
    ELSE 10 * DecimalValue(SubSeq(t, 1, Len(t) - 1)) + (t[Len(t)] - 48)

\* t reads '<lo> THRU <hi>'.
ReadsThru(t, lo, hi) ==
    \E k \in 1..(Len(t) - 7) :
        /\ DecimalValue(SubSeq(t, 1, k)) = lo
        /\ SubSeq(t, k + 1, k + 6) = <<32, 84, 72, 82, 85, 32>>
        /\ DecimalValue(SubSeq(t, k + 7, Len(t))) = hi

\* The tokens the claim asks for, for one pair.
TokensAsClaimed(p, toks) ==
    IF p[1] = p[2] THEN toks = <<[int |-> p[1]]>>
    ELSE IF p[2] = p[1] + 1 THEN toks = <<[int |-> p[1]], [int |-> p[2]]>>
    ELSE /\ Len(toks) = 1
         /\ DOMAIN toks[1] = {"str"}
         /\ ReadsThru(toks[1].str, p[1], p[2])

TokenCount(p) == IF p[2] = p[1] + 1 THEN 2 ELSE 1

RECURSIVE TokensMatch(_, _)
TokensMatch(pairs, toks) ==
    IF pairs = <<>> THEN toks = <<>>
    ELSE /\ Len(toks) >= TokenCount(Head(pairs))
         /\ TokensAsClaimed(Head(pairs), SubSeq(toks, 1, TokenCount(Head(pairs))))
         /\ TokensMatch(Tail(pairs), SubSeq(toks, TokenCount(Head(pairs)) + 1, Len(toks)))

\* The pairs hmRanges has rendered: all but the one it has just received.
Rendered ==
    IF rpc = "yielded" THEN SubSeq(yielded, 1, Len(yielded) - 1) ELSE yielded

\* C3: for every pair ranges yields, hmRanges emits, in order, the integer
\* lower when lower = upper, the two integers lower and upper when
\* upper = lower + 1, and the one string '<lower> THRU <upper>' otherwise.
C3_TokenShapes == TokensMatch(Rendered, hmOut)

\* All three shapes rendered in one call, with a two-digit bound in a THRU.
C3_Witness ==
    /\ RangesFinished
    /\ \E x \in DOMAIN yielded : yielded[x][1] = yielded[x][2]
    /\ \E x \in DOMAIN yielded : yielded[x][1] + 1 = yielded[x][2]
    /\ \E x \in DOMAIN yielded : yielded[x][1] + 2 <= yielded[x][2] /\ yielded[x][2] >= 10

\* The indices of the search are ordered and inside the list wherever they
\* are read.
IndexOrder ==
    /\ rpc = "test" =>
            /\ 0 <= lower /\ lower <= upper /\ upper <= mid
            /\ mid < boundary /\ boundary <= Len(sortedInts)
    /\ rpc \in {"search", "yielded", "resume"} =>
            /\ 0 <= lower /\ lower <= upper
            /\ upper < boundary /\ boundary <= Len(sortedInts)
    /\ rpc \in {"while", "exhausted"} => (0 <= lower /\ lower <= Len(sortedInts))
    /\ rpc # "call" => Len(yielded) <= Len(sortedInts)

\* C10: the search of ranges terminates for every list: the indices stay
\* ordered and in bounds, an inner step lowers boundary, an outer step raises
\* upper or ends the search with boundary <= upper + 1, a resumed generator
\* has moved lower up by at least one, at most len(sortedInts) pairs are
\* yielded, and the generator is exhausted in the end.
C10_SearchTerminates ==
    /\ []IndexOrder
    /\ [][SearchShrink => boundary' < boundary]_vars
    /\ [][SearchAccept => (upper' > upper \/ boundary' <= upper' + 1)]_vars
    /\ [][RangesResume => lower' >= lower + 1]_vars
    /\ <>RangesFinished

\* A list with duplicates whose search shrank boundary and which ended.
C10_Witness ==
    /\ RangesFinished
    /\ ~IsDistinct(intList)
    /\ Len(sortedInts) = MaxLen
    /\ Len(yielded) >= 2

---------------------------------------------------------------------------
(* What the text bdfExport writes is checked against: the text is read     *)
(* back, line by line and field by field.                                  *)

RECURSIVE SplitOn(_, _)
\* The pieces of t between the occurrences of the character c.
SplitOn(t, c) ==
    IF \A k \in DOMAIN t : t[k] # c THEN <<t>>
    ELSE LET at == CHOOSE k \in DOMAIN t : t[k] = c /\ \A j \in 1..(k - 1) : t[j] # c
         IN  <<SubSeq(t, 1, at - 1)>> \o SplitOn(SubSeq(t, at + 1, Len(t)), c)

\* The physical lines of a text: what a line break ends, and what follows
\* the last line break if anything does.
LinesOf(text) ==
    LET pieces == SplitOn(text, 10)
    IN  IF pieces[Len(pieces)] = <<>> THEN SubSeq(pieces, 1, Len(pieces) - 1)
        ELSE pieces

StartsWith(t, prefix) ==
    /\ Len(t) >= Len(prefix)
    /\ SubSeq(t, 1, Len(prefix)) = prefix

NonEmpty(t) == t # <<>>

\* The blank-separated fields of a line.
Fields(line) == SelectSeq(SplitOn(line, 32), NonEmpty)

IsSetLine(line) == StartsWith(line, <<83, 69, 84>>)
IsHmsetLine(line) == StartsWith(line, <<36, 72, 77, 83, 69, 84>>)

EndsWithComma(line) == line # <<>> /\ line[Len(line)] = 44

\* The comma-separated tokens of a line, a trailing comma set aside.
LineTokens(line) ==
    LET body == IF EndsWithComma(line) THEN SubSeq(line, 1, Len(line) - 1) ELSE line
    IN  IF body = <<>> THEN <<>> ELSE SplitOn(body, 44)

RECURSIVE Flatten(_)
Flatten(seqs) ==
    IF seqs = <<>> THEN <<>> ELSE Head(seqs) \o Flatten(Tail(seqs))

\* The physical lines of the record written last, its 'SET<id> = ' label
\* taken off the first.
RecordLines ==
    LET ls == LinesOf(bdf)
        start == CHOOSE k \in DOMAIN ls :
                     IsSetLine(ls[k]) /\ \A j \in (k + 1)..Len(ls) : ~IsSetLine(ls[j])
        first == ls[start]
        eq == CHOOSE k \in DOMAIN first : first[k] = 61 /\ \A j \in 1..(k - 1) : first[j] # 61
    IN  [k \in 1..(Len(ls) - start + 1) |->
            IF k = 1 THEN SubSeq(first, eq + 2, Len(first)) ELSE ls[start + k - 1]]

\* A piece of text reads as the token: the decimal digits of an integer
\* token, the very string of a string token.
ReadsToken(piece, tok) ==
    IF DOMAIN tok = {"int"} THEN DecimalValue(piece) = tok.int
    ELSE piece = tok.str

\* The record is nLines physical lines: all but the last hold 8 tokens and
\* end with a comma, the last ends without one, and the tokens read, in
\* order, as hmList.
RecordIsChunked(nLines) ==
    LET ls == RecordLines
        all == Flatten([k \in DOMAIN ls |-> LineTokens(ls[k])])
    IN  /\ Len(ls) = nLines
        /\ \A k \in 1..(Len(ls) - 1) : EndsWithComma(ls[k]) /\ Len(LineTokens(ls[k])) = 8
        /\ ~EndsWithComma(ls[Len(ls)])
        /\ Len(all) = Len(hmList)
        /\ \A k \in DOMAIN all : ReadsToken(all[k], hmList[k])

CeilDiv(a, b) == (a + b - 1) \div b

RecordWritten == epc = "hmset"

\* C4 as stated: a record of K tokens occupies ceil(K / 8) physical lines,
\* every line but the last holds exactly 8 tokens and ends with a comma, the
\* last line ends without one, and the tokens appear in order, none lost or
\* repeated.
C4_ChunkingAsStated ==
    RecordWritten => RecordIsChunked(CeilDiv(Len(hmList), 8))

\* C4 amended: the same for K >= 1; a record of no tokens occupies one
\* physical line, which holds no token and ends without a comma.
C4_Chunking ==
    RecordWritten =>
        RecordIsChunked(IF Len(hmList) = 0 THEN 1 ELSE CeilDiv(Len(hmList), 8))

\* A record of three lines: 17 tokens, a string token among them.
C4_Witness ==
    /\ RecordWritten
    /\ Len(hmList) = 17
    /\ \E k \in DOMAIN hmList : DOMAIN hmList[k] = {"str"}
    /\ Len(RecordLines) = 3

\* a < b for two names, by code point, a proper prefix before its extensions.
NameBefore(a, b) ==
    \E k \in 1..Len(b) :
        /\ \A j \in 1..(k - 1) : j <= Len(a) /\ a[j] = b[j]
        /\ (k > Len(a) \/ a[k] < b[k])

\* The place of a name among the names of setDict in ascending order.
NameRank(nm) == 1 + Cardinality({o \in DOMAIN setDict : NameBefore(o, nm)})

\* The r-th smallest member of a set of line numbers.
NthOf(S, r) == CHOOSE k \in S : Cardinality({j \in S : j < k}) = r - 1

\* The lines of bdf are: 'CEND'; for k = 1..N, by ascending name, the record
\* of id k and right after it the '$HMSET' line of id k and the k-th name;
\* 'BEGIN BULK'; 'ENDDATA'.
DocumentAsClaimed ==
    LET ls == LinesOf(bdf)
        n == Cardinality(DOMAIN setDict)
        setAt == {k \in DOMAIN ls : IsSetLine(ls[k])}
        hmAt == {k \in DOMAIN ls : IsHmsetLine(ls[k])}
    IN  /\ Len(ls) >= 3
        /\ ls[1] = <<67, 69, 78, 68>>
        /\ ls[Len(ls) - 1] = <<66, 69, 71, 73, 78, 32, 66, 85, 76, 75>>
        /\ ls[Len(ls)] = <<69, 78, 68, 68, 65, 84, 65>>
        /\ Cardinality(setAt) = n
        /\ Cardinality(hmAt) = n
        /\ n = 0 => Len(ls) = 3
        /\ \A nm \in DOMAIN setDict :
              LET r == NameRank(nm)
                  s == NthOf(setAt, r)
                  h == NthOf(hmAt, r)
                  f == Fields(ls[h])
              IN  /\ s < h
                  /\ s = IF r = 1 THEN 2 ELSE NthOf(hmAt, r - 1) + 1
                  /\ r = n => h = Len(ls) - 2
                  /\ DecimalValue(Fields(ls[s])[2]) = r
                  /\ Len(f) = 4
                  /\ DecimalValue(f[2]) = r
                  /\ f[4] = <<34>> \o nm \o <<34>>

\* C5: the lines bdfExport writes are the header 'CEND', then for k = 1..N in
\* ascending order of set name the SET record of id k followed at once by the
\* $HMSET line of id k and that name, then 'BEGIN BULK' and 'ENDDATA'.
C5_DocumentOrder == epc = "done" => DocumentAsClaimed

\* Two sets whose names share a prefix; the first record has two lines.
C5_Witness ==
    /\ epc = "done"
    /\ DOMAIN setDict = {<<65, 66>>, <<66>>}
    /\ Len(setDict[<<65, 66>>]) >= 12
    /\ DocumentAsClaimed

\* C8: when the write of the progress line to the diagnostic stream fails,
\* the document is none the less complete: header, all N records with their
\* metadata lines, trailer.
C8_DiagnosticFailureHarmless == epc = "raised" => DocumentAsClaimed

---------------------------------------------------------------------------
(* What fromOdb collects and writes is checked against the database.       *)

\* The material an assignment resolves to (none: the empty string).
MaterialOf(a) ==
    LET sec == odb.sections[a.sectionName]
    IN  IF "material" \in DOMAIN sec THEN sec.material ELSE <<>>

RECURSIVE AllLabelsFor(_, _)
\* The labels of all the assignments that resolve to the name, in order.
AllLabelsFor(as, name) ==
    IF as = <<>> THEN <<>>
    ELSE (IF MaterialOf(Head(as)) = name THEN Head(as).elements ELSE <<>>)
             \o AllLabelsFor(Tail(as), name)

\* The labels of the last assignment that resolves to the name.
LastLabelsFor(as, name) ==
    LET at == CHOOSE k \in DOMAIN as :
                  /\ MaterialOf(as[k]) = name
                  /\ \A j \in (k + 1)..Len(as) : MaterialOf(as[j]) # name
    IN  as[at].elements

MaterialsNamed(as) == {MaterialOf(as[k]) : k \in DOMAIN as} \ {<<>>}

\* The scan of the section assignments of the current instance is over.
ScanOver ==
    /\ opc = "scan"
    /\ saIdx = Len(odb.instances[instIdx].sectionAssignments)

\* C6 as stated: after the scan of an instance, the entry of a material name
\* holds only the labels of the last assignment that resolves to that name.
C6_LastWriteWins ==
    ScanOver =>
        \A name \in DOMAIN materialSets :
            materialSets[name] =
                LastLabelsFor(odb.instances[instIdx].sectionAssignments, name)

\* C6 amended: after the scan of an instance, the mapping has one entry per
\* material named by an assignment, and the entry holds the labels of all the
\* assignments that resolve to that name, in scan order: a later assignment
\* extends the entry, it does not replace it.
C6_Accumulates ==
    ScanOver =>
        /\ DOMAIN materialSets = MaterialsNamed(odb.instances[instIdx].sectionAssignments)
        /\ \A name \in DOMAIN materialSets :
               materialSets[name] =
                   AllLabelsFor(odb.instances[instIdx].sectionAssignments, name)

\* Two assignments with members resolved to one name, a third to another.
C6_Witness ==
    /\ ScanOver
    /\ Cardinality(DOMAIN materialSets) = 2
    /\ \E name \in DOMAIN materialSets :
           LET as == odb.instances[instIdx].sectionAssignments
           IN  \E j, k \in DOMAIN as :
                   /\ j < k
                   /\ MaterialOf(as[j]) = name /\ as[j].elements # <<>>
                   /\ MaterialOf(as[k]) = name /\ as[k].elements # <<>>

\* The instances fromOdb is through with and did not skip.
Processed ==
    {k \in 1..instIdx :
        /\ k < instIdx \/ opc \in {"instances", "done", "raised"}
        /\ ~(instanceName # <<>> /\ odb.instances[k].name # instanceName)}

HasFile(k) ==
    (SplitextRoot(odbName) \o <<95, 109, 97, 116, 101, 114, 105, 97, 108, 95>> \o odb.instances[k].name \o <<46, 98, 100, 102>>)
        \in DOMAIN files

NamesMaterial(k) == MaterialsNamed(odb.instances[k].sectionAssignments) # {}

HasMember(k) ==
    \E x \in DOMAIN odb.instances[k].sectionAssignments :
        /\ MaterialOf(odb.instances[k].sectionAssignments[x]) # <<>>
        /\ odb.instances[k].sectionAssignments[x].elements # <<>>

\* A material of instance k has no member in any of its assignments.
HasEmptyMaterial(k) ==
    \E name \in MaterialsNamed(odb.instances[k].sectionAssignments) :
        AllLabelsFor(odb.instances[k].sectionAssignments, name) = <<>>

\* The '-No materials-' lines on the diagnostic stream.
NoMaterialNotices ==
    Cardinality({k \in DOMAIN LinesOf(stderr) : LinesOf(stderr)[k] = <<45, 78, 111, 32, 109, 97, 116, 101, 114, 105, 97, 108, 115, 45>>})

\* C7 as stated: an instance one of whose materials has no member gets no
\* output file, and a file is created only when a material has a member
\* (looked at in the runs in which nothing raised).
C7_NoFileWithoutMembers ==
    opc # "raised" =>
        \A k \in Processed :
            /\ HasEmptyMaterial(k) => ~HasFile(k)
            /\ HasFile(k) => HasMember(k)

\* C7 amended: an output file is created for an instance exactly when one of
\* its section assignments names a material, whether or not a material has
\* a member; an instance that names none gets the '-No materials-' notice
\* and no file.
C7_FileIffMaterialNamed ==
    /\ \A k \in Processed : HasFile(k) <=> NamesMaterial(k)
    /\ NoMaterialNotices = Cardinality({k \in Processed : ~NamesMaterial(k)})

\* One instance got a file for a material without members, the other got
\* the notice and no file.
C7_Witness ==
    /\ opc = "done"
    /\ \E k \in Processed : HasFile(k) /\ ~HasMember(k)
    /\ \E k \in Processed : ~HasFile(k)

---------------------------------------------------------------------------
(* The command line.                                                       *)

\* C9: once a '--help' or '--test' argument is handled the driver is done:
\* no argument after it is passed to fromOdb.
C9_FlagEndsTheRun ==
    opc # "idle" =>
        \A k \in 1..(argIdx - 1) : argv[k] \notin {<<45, 45, 104, 101, 108, 112>>, <<45, 45, 116, 101, 115, 116>>}

=============================================================================
